---- MODULE Spec2Model ----
(***************************************************************************)
(* Span sanitization of a parsed Noir module (aztec_macros parse_utils.rs). *)
(*                                                                         *)
(* A syntax tree is a record; every record carries a "tag".  A field named *)
(* in SpanFields holds a location attribute, a field named in LeafFields   *)
(* holds a payload that is no tree (text, operator, opaque data), the      *)
(* field "elems" holds the elements of a Vec or an Option, and every other *)
(* field holds a child tree.                                               *)
(*                                                                         *)
(* Each empty_* function of the source is an operator that, given the node *)
(* it is called on, yields the statements the function executes on it, in  *)
(* source order: "set" (an assignment, here of Default::default() to a    *)
(* span) and "call" (a call of another empty_* function on a sub-node,     *)
(* with the statements that call executes).  Exec runs such a statement list to     *)
(* completion; the Walk actions run it one statement at a time on a call   *)
(* stack.                                                                  *)
(***************************************************************************)
EXTENDS Integers, Sequences, FiniteSets, TLC

VARIABLES
    pc,              \* position in parse_program
    empty_spans,     \* the flag parse_program was called with
    parsed_program,  \* the local `parsed_program` (mutated in place)
    errors,          \* the local `errors`
    parser_out,      \* what noirc_frontend::parse_program returned
    entered,         \* whether empty_parsed_module has been called
    returned,        \* the pair parse_program returned
    walk_tree,       \* stepwise traversal: the tree being mutated
    walk_stack,      \* stepwise traversal: the call stack
    walk_visits,     \* stepwise traversal: nodes an empty_* call was made on
    walk_steps,      \* stepwise traversal: statements executed so far
    walk_revisit,    \* stepwise traversal: some node was called on twice
    ord_orig,        \* field-order run: the function before the run
    ord_fn,          \* field-order run: the function being mutated
    ord_pending,     \* field-order run: fields not yet visited
    verify_pc,       \* position in verify
    public_abi,      \* verify: the parameters of the public ABI, in ABI order
    input_file,      \* verify: what the verifier input file holds
    file_read,       \* verify: whether the verifier input file has been read
    pi_map,          \* verify: the local `public_inputs` map (a BTreeMap)
    param_index,     \* verify: parameters process_abi_with_verifier_input has done
    public_inputs,   \* verify: the vector process_abi_with_verifier_input builds
    backend_inputs   \* verify: what verify_from_cs was called with, if it was

vars == <<pc, empty_spans, parsed_program, errors, parser_out, entered, returned,
          walk_tree, walk_stack, walk_visits, walk_steps, walk_revisit,
          ord_orig, ord_fn, ord_pending,
          verify_pc, public_abi, input_file, file_read, pi_map, param_index,
          public_inputs, backend_inputs>>

mainVars == <<pc, empty_spans, parsed_program, errors, parser_out, entered, returned>>
walkVars == <<walk_tree, walk_stack, walk_visits, walk_steps, walk_revisit>>
ordVars  == <<ord_orig, ord_fn, ord_pending>>
verifyVars == <<verify_pc, public_abi, input_file, file_read, pi_map, param_index,
                public_inputs, backend_inputs>>

\* ------------------------------------------------------------------ bounds

\* Span values are 0..MaxSpan; 0 is the default (empty) span.
MaxSpan == 1
\* Length of the non-empty lists of the generated trees.
MaxLen == 2
\* Nesting of expressions in expressions and of types in types.
MaxDepth == 1
\* Nesting of patterns in patterns.
MaxPatternDepth == 2
\* Length of the parser's error list.
MaxErrors == 2
\* Number of parameters of the public ABI.
MaxParams == 2
\* Length of a Vec input value.
MaxVec == 2

\* Default::default() of a Span.
Default == 0

Spans == 0..MaxSpan

\* ------------------------------------------------------- trees, generically

SpanFields == {"span", "type_span"}
LeafFields == {"tag", "text", "operator", "value", "rest", "env"}

\* One step of a path into a tree: the field f, or element i of a Vec/Option.
F(f) == [f |-> f, i |-> 0]
E(i) == [f |-> "elems", i |-> i]

RECURSIVE At(_, _)
At(n, p) ==
    IF Len(p) = 0 THEN n
    ELSE IF Head(p).i = 0 THEN At(n[Head(p).f], Tail(p))
    ELSE At(n.elems[Head(p).i], Tail(p))

RECURSIVE SetAt(_, _, _)
SetAt(n, p, v) ==
    IF Len(p) = 0 THEN v
    ELSE IF Head(p).i = 0 THEN [n EXCEPT ![Head(p).f] = SetAt(@, Tail(p), v)]
    ELSE [n EXCEPT !.elems[Head(p).i] = SetAt(@, Tail(p), v)]

RECURSIVE Flatten(_)
Flatten(ss) == IF Len(ss) = 0 THEN <<>> ELSE Head(ss) \o Flatten(Tail(ss))

Max(S) == CHOOSE x \in S : \A y \in S : y <= x

\* Every location attribute held anywhere in the tree.
RECURSIVE SpansIn(_)
SpansIn(n) ==
    UNION { IF f \in SpanFields THEN {n[f]}
            ELSE IF f \in LeafFields THEN {}
            ELSE IF f = "elems" THEN UNION {SpansIn(n.elems[i]) : i \in DOMAIN n.elems}
            ELSE SpansIn(n[f]) : f \in DOMAIN n }

\* The tree with every location attribute forgotten: tags, children, their
\* number and order, identifier text, literal values and operators remain.
RECURSIVE Shape(_)
Shape(n) ==
    [f \in DOMAIN n |->
        IF f \in SpanFields THEN Default
        ELSE IF f \in LeafFields THEN n[f]
        ELSE IF f = "elems" THEN [i \in DOMAIN n.elems |-> Shape(n.elems[i])]
        ELSE Shape(n[f])]

\* Nesting depth: a record or a list is one level above its deepest child.
RECURSIVE NestingDepth(_)
NestingDepth(n) ==
    1 + Max({0} \cup UNION {
            IF f \in SpanFields \cup LeafFields THEN {}
            ELSE IF f = "elems" THEN {NestingDepth(n.elems[i]) : i \in DOMAIN n.elems}
            ELSE {NestingDepth(n[f])} : f \in DOMAIN n })

\* The nodes of the tree, as paths from the root: records and lists.
RECURSIVE NodePaths(_)
NodePaths(n) ==
    {<<>>} \cup UNION {
        IF f \in SpanFields \cup LeafFields THEN {}
        ELSE IF f = "elems"
             THEN UNION {{<<E(i)>> \o p : p \in NodePaths(n.elems[i])} : i \in DOMAIN n.elems}
        ELSE {<<F(f)>> \o p : p \in NodePaths(n[f])} : f \in DOMAIN n }

\* ------------------------------------------------------------- statements

\* n.p = v
Set(p, v) == <<[op |-> "set", at |-> p, value |-> v]>>

\* n.p = Default::default(), for a span
Clear(p) == Set(p, Default)

\* fn(&mut n.p): a call of fn on the sub-node at p; body is what fn executes there
Call(fn, p, body) == <<[op |-> "call", fn |-> fn, at |-> p, body |-> body]>>

\* The indices of a Vec or an Option: for x in v.iter_mut(), if let Some(x) = v
Idx(v) == 1..Len(v.elems)

\* The statements run to completion on node n.
RECURSIVE Exec(_, _)
Exec(ops, n) ==
    IF Len(ops) = 0 THEN n
    ELSE LET o == Head(ops) IN
         Exec(Tail(ops),
              IF o.op = "set" THEN SetAt(n, o.at, o.value)
              ELSE SetAt(n, o.at, Exec(o.body, At(n, o.at))))

\* --------------------------------------------- parse_utils.rs: the empty_* functions

RECURSIVE empty_item(_), empty_noir_function(_), empty_trait_item(_),
          empty_trait_impl_item(_), empty_let_statement(_), empty_use_tree(_),
          empty_block_expression(_), empty_statement(_), empty_expressions(_),
          empty_expression(_), empty_unresolved_types(_), empty_unresolved_type(_),
          empty_unresolved_generics(_), empty_pattern(_),
          empty_unresolved_trait_constraints(_), empty_unresolved_trait_constraint(_),
          empty_function_return_type(_), empty_path(_), empty_literal(_),
          empty_lvalue(_), empty_for_range(_), empty_unresolved_type_expression(_),
          empty_parsed_module(_)

\* Mutant: the whole identifier is reset, its text with its span.
empty_ident_reset(ident) == Set(<<F("text")>>, "") \o Clear(<<F("span")>>)

\* ident.0.set_span(Default::default())
empty_ident(ident) == Clear(<<F("span")>>)

empty_path_segment(segment) ==
    Clear(<<F("span")>>)
    \o Call("empty_ident", <<F("ident")>>, empty_ident(segment.ident))

\* Mutant: the identifier of every segment is visited a second time from the path.
empty_path_revisits(path) ==
    Clear(<<F("span")>>)
    \o Flatten([i \in Idx(path.segments) |->
            Call("empty_path_segment", <<F("segments"), E(i)>>,
                 empty_path_segment(path.segments.elems[i]))
            \o Call("empty_ident", <<F("segments"), E(i), F("ident")>>,
                    empty_ident(path.segments.elems[i].ident))])

\* Mutant: an early return once the path's own span has been emptied, so that the
\* segments are reached only on a path whose span is already the default.
empty_path_early_out(path) ==
    IF path.span # Default THEN Clear(<<F("span")>>)
    ELSE Flatten([i \in Idx(path.segments) |->
            Call("empty_path_segment", <<F("segments"), E(i)>>,
                 empty_path_segment(path.segments.elems[i]))])

empty_path(path) ==
    Clear(<<F("span")>>)
    \o Flatten([i \in Idx(path.segments) |->
            Call("empty_path_segment", <<F("segments"), E(i)>>,
                 empty_path_segment(path.segments.elems[i]))])

empty_unresolved_type_expression(unresolved_type_expression) ==
    CASE unresolved_type_expression.tag = "Variable" ->
            Call("empty_path", <<F("path")>>, empty_path(unresolved_type_expression.path))
      [] unresolved_type_expression.tag = "BinaryOperation" ->
            Call("empty_unresolved_type_expression", <<F("lhs")>>,
                 empty_unresolved_type_expression(unresolved_type_expression.lhs))
            \o Call("empty_unresolved_type_expression", <<F("rhs")>>,
                    empty_unresolved_type_expression(unresolved_type_expression.rhs))
      [] unresolved_type_expression.tag = "Constant" -> <<>>

empty_unresolved_types(unresolved_types) ==
    Flatten([i \in Idx(unresolved_types) |->
        Call("empty_unresolved_type", <<E(i)>>,
             empty_unresolved_type(unresolved_types.elems[i]))])

empty_unresolved_type(unresolved_type) ==
    LET typ == unresolved_type.typ IN
    Clear(<<F("span")>>)
    \o CASE typ.tag \in {"Array", "FormatString"} ->
            Call("empty_unresolved_type_expression",
                 <<F("typ"), F("unresolved_type_expression")>>,
                 empty_unresolved_type_expression(typ.unresolved_type_expression))
            \o Call("empty_unresolved_type", <<F("typ"), F("unresolved_type")>>,
                    empty_unresolved_type(typ.unresolved_type))
         [] typ.tag \in {"Slice", "Parenthesized", "MutableReference"} ->
            Call("empty_unresolved_type", <<F("typ"), F("unresolved_type")>>,
                 empty_unresolved_type(typ.unresolved_type))
         [] typ.tag = "Expression" ->
            Call("empty_unresolved_type_expression",
                 <<F("typ"), F("unresolved_type_expression")>>,
                 empty_unresolved_type_expression(typ.unresolved_type_expression))
         [] typ.tag \in {"Named", "TraitAsType"} ->
            Call("empty_path", <<F("typ"), F("path")>>, empty_path(typ.path))
            \o Call("empty_unresolved_types", <<F("typ"), F("unresolved_types")>>,
                    empty_unresolved_types(typ.unresolved_types))
         [] typ.tag = "Tuple" ->
            Call("empty_unresolved_types", <<F("typ"), F("unresolved_types")>>,
                 empty_unresolved_types(typ.unresolved_types))
         [] typ.tag = "Function" ->
            Call("empty_unresolved_types", <<F("typ"), F("args")>>,
                 empty_unresolved_types(typ.args))
            \o Call("empty_unresolved_type", <<F("typ"), F("ret")>>,
                    empty_unresolved_type(typ.ret))
         [] typ.tag \in {"FieldElement", "Integer", "Bool", "String", "Unit", "Quoted",
                         "Resolved", "Unspecified", "Error"} -> <<>>

empty_unresolved_generic(unresolved_generic) ==
    CASE unresolved_generic.tag = "Variable" ->
            Call("empty_ident", <<F("ident")>>, empty_ident(unresolved_generic.ident))
      [] unresolved_generic.tag = "Numeric" ->
            Call("empty_ident", <<F("ident")>>, empty_ident(unresolved_generic.ident))
            \o Call("empty_unresolved_type", <<F("typ")>>,
                    empty_unresolved_type(unresolved_generic.typ))

empty_unresolved_generics(unresolved_generic) ==
    Flatten([i \in Idx(unresolved_generic) |->
        Call("empty_unresolved_generic", <<E(i)>>,
             empty_unresolved_generic(unresolved_generic.elems[i]))])

empty_pattern(pattern) ==
    CASE pattern.tag = "Identifier" ->
            Call("empty_ident", <<F("ident")>>, empty_ident(pattern.ident))
      [] pattern.tag = "Mutable" ->
            Call("empty_pattern", <<F("pattern")>>, empty_pattern(pattern.pattern))
      [] pattern.tag = "Tuple" ->
            Flatten([i \in Idx(pattern.patterns) |->
                Call("empty_pattern", <<F("patterns"), E(i)>>,
                     empty_pattern(pattern.patterns.elems[i]))])
      [] pattern.tag = "Struct" ->
            Call("empty_path", <<F("path")>>, empty_path(pattern.path))
            \o Flatten([i \in Idx(pattern.patterns) |->
                Call("empty_ident", <<F("patterns"), E(i), F("name")>>,
                     empty_ident(pattern.patterns.elems[i].name))
                \o Call("empty_pattern", <<F("patterns"), E(i), F("pattern")>>,
                        empty_pattern(pattern.patterns.elems[i].pattern))])

empty_unresolved_trait_constraint(unresolved_trait_constraint) ==
    Call("empty_unresolved_type", <<F("typ")>>,
         empty_unresolved_type(unresolved_trait_constraint.typ))

empty_unresolved_trait_constraints(unresolved_trait_constriants) ==
    Flatten([i \in Idx(unresolved_trait_constriants) |->
        Call("empty_unresolved_trait_constraint", <<E(i)>>,
             empty_unresolved_trait_constraint(unresolved_trait_constriants.elems[i]))])

empty_function_return_type(function_return_type) ==
    CASE function_return_type.tag = "Ty" ->
            Call("empty_unresolved_type", <<F("unresolved_type")>>,
                 empty_unresolved_type(function_return_type.unresolved_type))
      [] function_return_type.tag = "Default" -> <<>>

empty_expressions(expressions) ==
    Flatten([i \in Idx(expressions) |->
        Call("empty_expression", <<E(i)>>, empty_expression(expressions.elems[i]))])

empty_array_literal(array_literal) ==
    CASE array_literal.tag = "Standard" ->
            Call("empty_expressions", <<F("expressions")>>,
                 empty_expressions(array_literal.expressions))
      [] array_literal.tag = "Repeated" ->
            Call("empty_expression", <<F("repeated_element")>>,
                 empty_expression(array_literal.repeated_element))
            \o Call("empty_expression", <<F("length")>>,
                    empty_expression(array_literal.length))

\* Mutant: the value of a scalar literal is reset.
empty_literal_resets_value(literal) ==
    CASE literal.tag \in {"Array", "Slice"} ->
            Call("empty_array_literal", <<F("array_literal")>>,
                 empty_array_literal(literal.array_literal))
      [] literal.tag \in {"Bool", "Integer", "Str", "RawStr", "FmtStr", "Unit"} ->
            Set(<<F("value")>>, "")

empty_literal(literal) ==
    CASE literal.tag \in {"Array", "Slice"} ->
            Call("empty_array_literal", <<F("array_literal")>>,
                 empty_array_literal(literal.array_literal))
      [] literal.tag \in {"Bool", "Integer", "Str", "RawStr", "FmtStr", "Unit"} -> <<>>

empty_prefix_expression(prefix_expression) ==
    Call("empty_expression", <<F("rhs")>>, empty_expression(prefix_expression.rhs))

empty_index_expression(index_expression) ==
    Call("empty_expression", <<F("collection")>>,
         empty_expression(index_expression.collection))
    \o Call("empty_expression", <<F("index")>>, empty_expression(index_expression.index))

empty_call_expression(call_expression) ==
    Call("empty_expression", <<F("func")>>, empty_expression(call_expression.func))
    \o Call("empty_expressions", <<F("arguments")>>,
            empty_expressions(call_expression.arguments))

empty_method_call_expression(method_call_expression) ==
    Call("empty_expression", <<F("object")>>,
         empty_expression(method_call_expression.object))
    \o Call("empty_ident", <<F("method_name")>>,
            empty_ident(method_call_expression.method_name))
    \o Flatten([i \in Idx(method_call_expression.generics) |->
            Call("empty_unresolved_types", <<F("generics"), E(i)>>,
                 empty_unresolved_types(method_call_expression.generics.elems[i]))])
    \o Call("empty_expressions", <<F("arguments")>>,
            empty_expressions(method_call_expression.arguments))

empty_constructor_expression(constructor_expression) ==
    Call("empty_path", <<F("type_name")>>, empty_path(constructor_expression.type_name))
    \o Flatten([i \in Idx(constructor_expression.fields) |->
            Call("empty_ident", <<F("fields"), E(i), F("name")>>,
                 empty_ident(constructor_expression.fields.elems[i].name))
            \o Call("empty_expression", <<F("fields"), E(i), F("expression")>>,
                    empty_expression(constructor_expression.fields.elems[i].expression))])

empty_member_access_expression(member_access_expression) ==
    Call("empty_expression", <<F("lhs")>>, empty_expression(member_access_expression.lhs))
    \o Call("empty_ident", <<F("rhs")>>, empty_ident(member_access_expression.rhs))

empty_cast_expression(cast_expression) ==
    Call("empty_expression", <<F("lhs")>>, empty_expression(cast_expression.lhs))
    \o Call("empty_unresolved_type", <<F("type")>>,
            empty_unresolved_type(cast_expression.type))

empty_infix_expression(infix_expression) ==
    Call("empty_expression", <<F("lhs")>>, empty_expression(infix_expression.lhs))
    \o Call("empty_expression", <<F("rhs")>>, empty_expression(infix_expression.rhs))

empty_if_expression(if_expression) ==
    Call("empty_expression", <<F("condition")>>, empty_expression(if_expression.condition))
    \o Call("empty_expression", <<F("consequence")>>,
            empty_expression(if_expression.consequence))
    \o Flatten([i \in Idx(if_expression.alternative) |->
            Call("empty_expression", <<F("alternative"), E(i)>>,
                 empty_expression(if_expression.alternative.elems[i]))])

empty_lambda(lambda) ==
    Flatten([i \in Idx(lambda.parameters) |->
        Call("empty_pattern", <<F("parameters"), E(i), F("name")>>,
             empty_pattern(lambda.parameters.elems[i].name))
        \o Call("empty_unresolved_type", <<F("parameters"), E(i), F("typ")>>,
                empty_unresolved_type(lambda.parameters.elems[i].typ))])
    \o Call("empty_unresolved_type", <<F("return_type")>>,
            empty_unresolved_type(lambda.return_type))
    \o Call("empty_expression", <<F("body")>>, empty_expression(lambda.body))

empty_expression(expression) ==
    LET kind == expression.kind IN
    Clear(<<F("span")>>)
    \o CASE kind.tag = "Literal" ->
            Call("empty_literal", <<F("kind"), F("literal")>>, empty_literal(kind.literal))
         [] kind.tag = "Block" ->
            Call("empty_block_expression", <<F("kind"), F("block_expression")>>,
                 empty_block_expression(kind.block_expression))
         [] kind.tag = "Prefix" ->
            Call("empty_prefix_expression", <<F("kind"), F("prefix_expression")>>,
                 empty_prefix_expression(kind.prefix_expression))
         [] kind.tag = "Index" ->
            Call("empty_index_expression", <<F("kind"), F("index_expression")>>,
                 empty_index_expression(kind.index_expression))
         [] kind.tag = "Call" ->
            Call("empty_call_expression", <<F("kind"), F("call_expression")>>,
                 empty_call_expression(kind.call_expression))
         [] kind.tag = "MethodCall" ->
            Call("empty_method_call_expression",
                 <<F("kind"), F("method_call_expression")>>,
                 empty_method_call_expression(kind.method_call_expression))
         [] kind.tag = "Constructor" ->
            Call("empty_constructor_expression",
                 <<F("kind"), F("constructor_expression")>>,
                 empty_constructor_expression(kind.constructor_expression))
         [] kind.tag = "MemberAccess" ->
            Call("empty_member_access_expression",
                 <<F("kind"), F("member_access_expression")>>,
                 empty_member_access_expression(kind.member_access_expression))
         [] kind.tag = "Cast" ->
            Call("empty_cast_expression", <<F("kind"), F("cast_expression")>>,
                 empty_cast_expression(kind.cast_expression))
         [] kind.tag = "Infix" ->
            Call("empty_infix_expression", <<F("kind"), F("infix_expression")>>,
                 empty_infix_expression(kind.infix_expression))
         [] kind.tag = "If" ->
            Call("empty_if_expression", <<F("kind"), F("if_expression")>>,
                 empty_if_expression(kind.if_expression))
         [] kind.tag = "Variable" ->
            Call("empty_path", <<F("kind"), F("path")>>, empty_path(kind.path))
         [] kind.tag = "Tuple" ->
            Call("empty_expressions", <<F("kind"), F("expressions")>>,
                 empty_expressions(kind.expressions))
         [] kind.tag = "Lambda" ->
            Call("empty_lambda", <<F("kind"), F("lambda")>>, empty_lambda(kind.lambda))
         [] kind.tag \in {"Parenthesized", "Unquote"} ->
            Call("empty_expression", <<F("kind"), F("expression")>>,
                 empty_expression(kind.expression))
         [] kind.tag = "Comptime" ->
            Call("empty_block_expression", <<F("kind"), F("block_expression")>>,
                 empty_block_expression(kind.block_expression))
         [] kind.tag \in {"Quote", "Resolved", "Error"} -> <<>>

empty_lvalue(lvalue) ==
    CASE lvalue.tag = "Ident" ->
            Call("empty_ident", <<F("ident")>>, empty_ident(lvalue.ident))
      [] lvalue.tag = "MemberAccess" ->
            Call("empty_lvalue", <<F("object")>>, empty_lvalue(lvalue.object))
            \o Call("empty_ident", <<F("field_name")>>, empty_ident(lvalue.field_name))
      [] lvalue.tag = "Index" ->
            Call("empty_lvalue", <<F("array")>>, empty_lvalue(lvalue.array))
            \o Call("empty_expression", <<F("index")>>, empty_expression(lvalue.index))
      [] lvalue.tag = "Dereference" ->
            Call("empty_lvalue", <<F("lvalue")>>, empty_lvalue(lvalue.lvalue))

empty_for_range(for_range) ==
    CASE for_range.tag = "Range" ->
            Call("empty_expression", <<F("from")>>, empty_expression(for_range.from))
            \o Call("empty_expression", <<F("to")>>, empty_expression(for_range.to))
      [] for_range.tag = "Array" ->
            Call("empty_expression", <<F("expression")>>,
                 empty_expression(for_range.expression))

empty_assign_statement(assign_statement) ==
    Call("empty_lvalue", <<F("lvalue")>>, empty_lvalue(assign_statement.lvalue))
    \o Call("empty_expression", <<F("expression")>>,
            empty_expression(assign_statement.expression))

empty_for_loop_statement(for_loop_statement) ==
    Clear(<<F("span")>>)
    \o Call("empty_ident", <<F("identifier")>>, empty_ident(for_loop_statement.identifier))
    \o Call("empty_for_range", <<F("range")>>, empty_for_range(for_loop_statement.range))
    \o Call("empty_expression", <<F("block")>>, empty_expression(for_loop_statement.block))

empty_constrain_statement(constrain_statement) ==
    Call("empty_expression", <<F("arg0")>>, empty_expression(constrain_statement.arg0))
    \o Flatten([i \in Idx(constrain_statement.arg1) |->
            Call("empty_expression", <<F("arg1"), E(i)>>,
                 empty_expression(constrain_statement.arg1.elems[i]))])

empty_let_statement(let_statement) ==
    Call("empty_pattern", <<F("pattern")>>, empty_pattern(let_statement.pattern))
    \o Call("empty_unresolved_type", <<F("type")>>,
            empty_unresolved_type(let_statement.type))
    \o Call("empty_expression", <<F("expression")>>,
            empty_expression(let_statement.expression))

empty_statement(statement) ==
    LET kind == statement.kind IN
    Clear(<<F("span")>>)
    \o CASE kind.tag = "Let" ->
            Call("empty_let_statement", <<F("kind"), F("let_statement")>>,
                 empty_let_statement(kind.let_statement))
         [] kind.tag = "Constrain" ->
            Call("empty_constrain_statement", <<F("kind"), F("constrain_statement")>>,
                 empty_constrain_statement(kind.constrain_statement))
         [] kind.tag \in {"Expression", "Semi"} ->
            Call("empty_expression", <<F("kind"), F("expression")>>,
                 empty_expression(kind.expression))
         [] kind.tag = "Assign" ->
            Call("empty_assign_statement", <<F("kind"), F("assign_statement")>>,
                 empty_assign_statement(kind.assign_statement))
         [] kind.tag = "For" ->
            Call("empty_for_loop_statement", <<F("kind"), F("for_loop_statement")>>,
                 empty_for_loop_statement(kind.for_loop_statement))
         [] kind.tag = "Comptime" ->
            Call("empty_statement", <<F("kind"), F("statement")>>,
                 empty_statement(kind.statement))
         [] kind.tag \in {"Break", "Continue", "Error"} -> <<>>

empty_block_expression(block_expression) ==
    Flatten([i \in Idx(block_expression.statements) |->
        Call("empty_statement", <<F("statements"), E(i)>>,
             empty_statement(block_expression.statements.elems[i]))])

\* Mutant: the name takes over the span of the definition, read when the name is
\* visited, instead of the default span.
empty_noir_function_reads_span(noir_function) ==
    LET def == noir_function.def IN
    Clear(<<F("def"), F("span")>>)
    \o Set(<<F("def"), F("name"), F("span")>>, def.span)
    \o Call("empty_unresolved_generics", <<F("def"), F("generics")>>,
            empty_unresolved_generics(def.generics))
    \o Flatten([i \in Idx(def.parameters) |->
            Clear(<<F("def"), F("parameters"), E(i), F("span")>>)
            \o Call("empty_unresolved_type", <<F("def"), F("parameters"), E(i), F("typ")>>,
                    empty_unresolved_type(def.parameters.elems[i].typ))
            \o Call("empty_pattern", <<F("def"), F("parameters"), E(i), F("pattern")>>,
                    empty_pattern(def.parameters.elems[i].pattern))])
    \o Call("empty_unresolved_trait_constraints", <<F("def"), F("where_clause")>>,
            empty_unresolved_trait_constraints(def.where_clause))
    \o Call("empty_function_return_type", <<F("def"), F("return_type")>>,
            empty_function_return_type(def.return_type))
    \o Call("empty_block_expression", <<F("def"), F("body")>>,
            empty_block_expression(def.body))

empty_noir_function(noir_function) ==
    LET def == noir_function.def IN
    Clear(<<F("def"), F("span")>>)
    \o Call("empty_ident", <<F("def"), F("name")>>, empty_ident(def.name))
    \o Call("empty_unresolved_generics", <<F("def"), F("generics")>>,
            empty_unresolved_generics(def.generics))
    \o Flatten([i \in Idx(def.parameters) |->
            Clear(<<F("def"), F("parameters"), E(i), F("span")>>)
            \o Call("empty_unresolved_type", <<F("def"), F("parameters"), E(i), F("typ")>>,
                    empty_unresolved_type(def.parameters.elems[i].typ))
            \o Call("empty_pattern", <<F("def"), F("parameters"), E(i), F("pattern")>>,
                    empty_pattern(def.parameters.elems[i].pattern))])
    \o Call("empty_unresolved_trait_constraints", <<F("def"), F("where_clause")>>,
            empty_unresolved_trait_constraints(def.where_clause))
    \o Call("empty_function_return_type", <<F("def"), F("return_type")>>,
            empty_function_return_type(def.return_type))
    \o Call("empty_block_expression", <<F("def"), F("body")>>,
            empty_block_expression(def.body))

\* Mutant: the default value of an associated constant is not visited.
empty_trait_item_no_default(trait_item) ==
    IF trait_item.tag = "Constant"
    THEN Call("empty_ident", <<F("name")>>, empty_ident(trait_item.name))
         \o Call("empty_unresolved_type", <<F("typ")>>, empty_unresolved_type(trait_item.typ))
    ELSE Call("empty_ident", <<F("name")>>, empty_ident(trait_item.name))

empty_trait_item(trait_item) ==
    CASE trait_item.tag = "Function" ->
            Call("empty_ident", <<F("name")>>, empty_ident(trait_item.name))
            \o Call("empty_unresolved_generics", <<F("generics")>>,
                    empty_unresolved_generics(trait_item.generics))
            \o Flatten([i \in Idx(trait_item.parameters) |->
                    Call("empty_ident", <<F("parameters"), E(i), F("name")>>,
                         empty_ident(trait_item.parameters.elems[i].name))
                    \o Call("empty_unresolved_type", <<F("parameters"), E(i), F("typ")>>,
                            empty_unresolved_type(trait_item.parameters.elems[i].typ))])
            \o Call("empty_function_return_type", <<F("return_type")>>,
                    empty_function_return_type(trait_item.return_type))
            \o Flatten([i \in Idx(trait_item.where_clause) |->
                    Call("empty_unresolved_trait_constraint", <<F("where_clause"), E(i)>>,
                         empty_unresolved_trait_constraint(trait_item.where_clause.elems[i]))])
            \o Flatten([i \in Idx(trait_item.body) |->
                    Call("empty_block_expression", <<F("body"), E(i)>>,
                         empty_block_expression(trait_item.body.elems[i]))])
      [] trait_item.tag = "Constant" ->
            Call("empty_ident", <<F("name")>>, empty_ident(trait_item.name))
            \o Call("empty_unresolved_type", <<F("typ")>>,
                    empty_unresolved_type(trait_item.typ))
            \o Flatten([i \in Idx(trait_item.default_value) |->
                    Call("empty_expression", <<F("default_value"), E(i)>>,
                         empty_expression(trait_item.default_value.elems[i]))])
      [] trait_item.tag = "Type" ->
            Call("empty_ident", <<F("name")>>, empty_ident(trait_item.name))

empty_trait_impl_item(trait_impl_item) ==
    CASE trait_impl_item.tag = "Function" ->
            Call("empty_noir_function", <<F("noir_function")>>,
                 empty_noir_function(trait_impl_item.noir_function))
      [] trait_impl_item.tag = "Constant" ->
            Call("empty_ident", <<F("name")>>, empty_ident(trait_impl_item.name))
            \o Call("empty_unresolved_type", <<F("typ")>>,
                    empty_unresolved_type(trait_impl_item.typ))
            \o Call("empty_expression", <<F("default_value")>>,
                    empty_expression(trait_impl_item.default_value))
      [] trait_impl_item.tag = "Type" ->
            Call("empty_ident", <<F("name")>>, empty_ident(trait_impl_item.name))
            \o Call("empty_unresolved_type", <<F("alias")>>,
                    empty_unresolved_type(trait_impl_item.alias))

empty_noir_trait(noir_trait) ==
    Clear(<<F("span")>>)
    \o Call("empty_ident", <<F("name")>>, empty_ident(noir_trait.name))
    \o Call("empty_unresolved_generics", <<F("generics")>>,
            empty_unresolved_generics(noir_trait.generics))
    \o Call("empty_unresolved_trait_constraints", <<F("where_clause")>>,
            empty_unresolved_trait_constraints(noir_trait.where_clause))
    \o Flatten([i \in Idx(noir_trait.items) |->
            Call("empty_trait_item", <<F("items"), E(i)>>,
                 empty_trait_item(noir_trait.items.elems[i]))])

empty_noir_trait_impl(noir_trait_impl) ==
    Call("empty_path", <<F("trait_name")>>, empty_path(noir_trait_impl.trait_name))
    \o Call("empty_unresolved_generics", <<F("impl_generics")>>,
            empty_unresolved_generics(noir_trait_impl.impl_generics))
    \o Call("empty_unresolved_type", <<F("object_type")>>,
            empty_unresolved_type(noir_trait_impl.object_type))
    \o Call("empty_unresolved_trait_constraints", <<F("where_clause")>>,
            empty_unresolved_trait_constraints(noir_trait_impl.where_clause))
    \o Flatten([i \in Idx(noir_trait_impl.items) |->
            Call("empty_trait_impl_item", <<F("items"), E(i)>>,
                 empty_trait_impl_item(noir_trait_impl.items.elems[i]))])

empty_type_impl(type_impl) ==
    Call("empty_unresolved_type", <<F("object_type")>>,
         empty_unresolved_type(type_impl.object_type))
    \o Clear(<<F("type_span")>>)
    \o Call("empty_unresolved_generics", <<F("generics")>>,
            empty_unresolved_generics(type_impl.generics))
    \o Call("empty_unresolved_trait_constraints", <<F("where_clause")>>,
            empty_unresolved_trait_constraints(type_impl.where_clause))
    \o Flatten([i \in Idx(type_impl.methods) |->
            Call("empty_noir_function", <<F("methods"), E(i), F("noir_function")>>,
                 empty_noir_function(type_impl.methods.elems[i].noir_function))])

\* Mutant: the items of the nested module are not visited.
empty_parsed_submodule_name_only(parsed_submodule) ==
    Call("empty_ident", <<F("name")>>, empty_ident(parsed_submodule.name))

empty_parsed_submodule(parsed_submodule) ==
    Call("empty_ident", <<F("name")>>, empty_ident(parsed_submodule.name))
    \o Call("empty_parsed_module", <<F("contents")>>,
            empty_parsed_module(parsed_submodule.contents))

empty_module_declaration(module_declaration) ==
    Call("empty_ident", <<F("ident")>>, empty_ident(module_declaration.ident))

empty_use_tree(use_tree) ==
    Call("empty_path", <<F("prefix")>>, empty_path(use_tree.prefix))
    \o CASE use_tree.kind.tag = "Path" ->
            Call("empty_ident", <<F("kind"), F("name")>>, empty_ident(use_tree.kind.name))
            \o Flatten([i \in Idx(use_tree.kind.alias) |->
                    Call("empty_ident", <<F("kind"), F("alias"), E(i)>>,
                         empty_ident(use_tree.kind.alias.elems[i]))])
         [] use_tree.kind.tag = "List" ->
            Flatten([i \in Idx(use_tree.kind.use_trees) |->
                Call("empty_use_tree", <<F("kind"), F("use_trees"), E(i)>>,
                     empty_use_tree(use_tree.kind.use_trees.elems[i]))])

empty_noir_struct(noir_struct) ==
    Clear(<<F("span")>>)
    \o Call("empty_ident", <<F("name")>>, empty_ident(noir_struct.name))
    \o Flatten([i \in Idx(noir_struct.fields) |->
            Call("empty_ident", <<F("fields"), E(i), F("name")>>,
                 empty_ident(noir_struct.fields.elems[i].name))
            \o Call("empty_unresolved_type", <<F("fields"), E(i), F("typ")>>,
                    empty_unresolved_type(noir_struct.fields.elems[i].typ))])
    \o Call("empty_unresolved_generics", <<F("generics")>>,
            empty_unresolved_generics(noir_struct.generics))

empty_noir_type_alias(noir_type_alias) ==
    Clear(<<F("span")>>)
    \o Call("empty_ident", <<F("name")>>, empty_ident(noir_type_alias.name))
    \o Call("empty_unresolved_type", <<F("typ")>>,
            empty_unresolved_type(noir_type_alias.typ))

empty_item(item) ==
    LET kind == item.kind IN
    Clear(<<F("span")>>)
    \o CASE kind.tag = "Function" ->
            Call("empty_noir_function", <<F("kind"), F("noir_function")>>,
                 empty_noir_function(kind.noir_function))
         [] kind.tag = "Trait" ->
            Call("empty_noir_trait", <<F("kind"), F("noir_trait")>>,
                 empty_noir_trait(kind.noir_trait))
         [] kind.tag = "TraitImpl" ->
            Call("empty_noir_trait_impl", <<F("kind"), F("noir_trait_impl")>>,
                 empty_noir_trait_impl(kind.noir_trait_impl))
         [] kind.tag = "Impl" ->
            Call("empty_type_impl", <<F("kind"), F("type_impl")>>,
                 empty_type_impl(kind.type_impl))
         [] kind.tag = "Global" ->
            Call("empty_let_statement", <<F("kind"), F("let_statement")>>,
                 empty_let_statement(kind.let_statement))
         [] kind.tag = "Submodules" ->
            Call("empty_parsed_submodule", <<F("kind"), F("parsed_submodule")>>,
                 empty_parsed_submodule(kind.parsed_submodule))
         [] kind.tag = "ModuleDecl" ->
            Call("empty_module_declaration", <<F("kind"), F("module_declaration")>>,
                 empty_module_declaration(kind.module_declaration))
         [] kind.tag = "Import" ->
            Call("empty_use_tree", <<F("kind"), F("use_tree")>>,
                 empty_use_tree(kind.use_tree))
         [] kind.tag = "Struct" ->
            Call("empty_noir_struct", <<F("kind"), F("noir_struct")>>,
                 empty_noir_struct(kind.noir_struct))
         [] kind.tag = "TypeAlias" ->
            Call("empty_noir_type_alias", <<F("kind"), F("noir_type_alias")>>,
                 empty_noir_type_alias(kind.noir_type_alias))

empty_parsed_module(parsed_module) ==
    Flatten([i \in Idx(parsed_module.items) |->
        Call("empty_item", <<F("items"), E(i)>>,
             empty_item(parsed_module.items.elems[i]))])

\* ------------------------------------- the trees noirc_frontend::parse_program yields

\* A generated node takes its own location attributes from c[1]; its children are
\* generated under Flip(c), so a node and its children may differ in their spans.
Flip(c) == <<c[2], c[1]>>
Contexts == {<<s, s>> : s \in Spans} \cup {<<Default, MaxSpan>>, <<MaxSpan, Default>>}

Vec(xs) == [tag |-> "Vec", elems |-> xs]
None == [tag |-> "Option", elems |-> <<>>]
Some(x) == [tag |-> "Option", elems |-> <<x>>]
Rep(x, k) == Vec([i \in 1..k |-> x])
Lens == {0, MaxLen}

MkIdent(c) == [tag |-> "Ident", text |-> "x", span |-> c[1]]
MkPathSegment(c) == [tag |-> "PathSegment", ident |-> MkIdent(Flip(c)), span |-> c[1]]
MkPath(c) ==
    [tag |-> "Path", segments |-> Rep(MkPathSegment(Flip(c)), MaxLen), span |-> c[1],
     rest |-> "Plain"]

\* UnresolvedTypeExpression
TypeExprVariable(c) == [tag |-> "Variable", path |-> MkPath(c)]
TypeExprConstant == [tag |-> "Constant", value |-> "5", rest |-> "_"]
TypeExprBinary(l, r) == [tag |-> "BinaryOperation", lhs |-> l, operator |-> "+", rhs |-> r, rest |-> "_"]
TypeExprs(c) ==
    {TypeExprVariable(c), TypeExprConstant,
     TypeExprBinary(TypeExprVariable(c), TypeExprConstant),
     TypeExprBinary(TypeExprConstant, TypeExprBinary(TypeExprVariable(c), TypeExprVariable(c)))}

\* UnresolvedType { typ: UnresolvedTypeData, span }
MkType(c, data) == [tag |-> "UnresolvedType", typ |-> data, span |-> c[1]]
TerminalTypeTags ==
    {"FieldElement", "Integer", "Bool", "String", "Unit", "Quoted", "Resolved",
     "Unspecified", "Error"}
TypeLeaves(c) ==
    {MkType(c, [tag |-> t, rest |-> "_"]) : t \in TerminalTypeTags}
    \cup {MkType(c, [tag |-> "Expression", unresolved_type_expression |-> te]) :
            te \in TypeExprs(Flip(c))}
    \cup {MkType(c, [tag |-> t, path |-> MkPath(Flip(c)), unresolved_types |-> Rep(0, 0),
                     rest |-> "_"]) : t \in {"Named", "TraitAsType"}}
    \cup {MkType(c, [tag |-> "Tuple", unresolved_types |-> Rep(0, 0)])}
FieldType(c) == MkType(c, [tag |-> "FieldElement", rest |-> "_"])
NamedType(c) ==
    MkType(c, [tag |-> "Named", path |-> MkPath(Flip(c)),
               unresolved_types |-> Rep(FieldType(c), 1), rest |-> "_"])
ErrorType(c) == MkType(c, [tag |-> "Error", rest |-> "_"])
TypeWraps(c, t) ==
    {MkType(c, [tag |-> tg, unresolved_type_expression |-> TypeExprVariable(Flip(c)),
                unresolved_type |-> t]) : tg \in {"Array", "FormatString"}}
    \cup {MkType(c, [tag |-> tg, unresolved_type |-> t]) :
            tg \in {"Slice", "Parenthesized", "MutableReference"}}
    \cup {MkType(c, [tag |-> tg, path |-> MkPath(Flip(c)),
                     unresolved_types |-> Rep(t, MaxLen), rest |-> "_"]) :
            tg \in {"Named", "TraitAsType"}}
    \cup {MkType(c, [tag |-> "Tuple", unresolved_types |-> Rep(t, MaxLen)]),
          MkType(c, [tag |-> "Function", args |-> Rep(t, MaxLen), ret |-> t, env |-> "_"])}
\* Types nested d deep around a field-element type.
RECURSIVE TypeSpine(_, _)
TypeSpine(d, c) ==
    IF d = 0 THEN {FieldType(c)}
    ELSE UNION {TypeWraps(c, t) : t \in TypeSpine(d - 1, Flip(c))}
TypeKids(d, c) ==
    {FieldType(c), NamedType(c), ErrorType(c)}
    \cup (IF d = 0 THEN {} ELSE TypeSpine(d, c))
Types(d, c) ==
    TypeLeaves(c)
    \cup (IF d = 0 THEN {} ELSE UNION {TypeWraps(c, t) : t \in TypeKids(d - 1, Flip(c))})

\* Pattern
IdentPattern(c) == [tag |-> "Identifier", ident |-> MkIdent(c)]
PatternWraps(c, p) ==
    {[tag |-> "Mutable", pattern |-> p, span |-> c[1], rest |-> "_"],
     [tag |-> "Tuple", patterns |-> Rep(p, MaxLen), rest |-> "_"],
     [tag |-> "Struct", path |-> MkPath(Flip(c)),
      patterns |-> Rep([name |-> MkIdent(Flip(c)), pattern |-> p], MaxLen), span |-> c[1]]}
RECURSIVE Patterns(_, _)
Patterns(d, c) ==
    {IdentPattern(c),
     [tag |-> "Tuple", patterns |-> Rep(0, 0), rest |-> "_"],
     [tag |-> "Struct", path |-> MkPath(Flip(c)), patterns |-> Rep(0, 0), span |-> c[1]]}
    \cup (IF d = 0 THEN {} ELSE UNION {PatternWraps(c, p) : p \in Patterns(d - 1, Flip(c))})

\* Expression { kind: ExpressionKind, span }
MkExpr(c, kind) == [tag |-> "Expression", kind |-> kind, span |-> c[1]]
MkStmt(c, kind) == [tag |-> "Statement", kind |-> kind, span |-> c[1]]
MkBlock(stmts) == [tag |-> "BlockExpression", statements |-> stmts]
ScalarLiteralTags == {"Bool", "Integer", "Str", "RawStr", "FmtStr", "Unit"}
VariableExpr(c) == MkExpr(c, [tag |-> "Variable", path |-> MkPath(Flip(c))])
IntegerExpr(c) ==
    MkExpr(c, [tag |-> "Literal", literal |-> [tag |-> "Integer", value |-> "1"]])
ErrorExpr(c) == MkExpr(c, [tag |-> "Error", rest |-> "_"])
ExprLeaves(c) ==
    {MkExpr(c, [tag |-> "Literal", literal |-> [tag |-> t, value |-> "1"]]) :
        t \in ScalarLiteralTags}
    \cup {MkExpr(c, [tag |-> t, rest |-> "_"]) : t \in {"Quote", "Resolved", "Error"}}
    \cup {VariableExpr(c),
          MkExpr(c, [tag |-> "Tuple", expressions |-> Rep(0, 0)]),
          MkExpr(c, [tag |-> "Block", block_expression |-> MkBlock(Rep(0, 0))]),
          MkExpr(c, [tag |-> "Literal", literal |->
                [tag |-> "Array", array_literal |->
                    [tag |-> "Standard", expressions |-> Rep(0, 0)]]])}
ExprWraps(c, e) ==
    LET k == Flip(c) IN
    {MkExpr(c, [tag |-> "Literal", literal |->
            [tag |-> t, array_literal |-> [tag |-> "Standard", expressions |-> Rep(e, MaxLen)]]]) :
        t \in {"Array", "Slice"}}
    \cup {MkExpr(c, [tag |-> "Literal", literal |->
            [tag |-> t, array_literal |->
                [tag |-> "Repeated", repeated_element |-> e, length |-> IntegerExpr(k)]]]) :
        t \in {"Array", "Slice"}}
    \cup {MkExpr(c, [tag |-> t, expression |-> e]) : t \in {"Parenthesized", "Unquote"}}
    \cup {MkExpr(c, [tag |-> "If", if_expression |->
            [tag |-> "IfExpression", condition |-> e, consequence |-> e, alternative |-> a]]) :
        a \in {None, Some(e)}}
    \cup {MkExpr(c, [tag |-> "MethodCall", method_call_expression |->
            [tag |-> "MethodCallExpression", object |-> e, method_name |-> MkIdent(k),
             generics |-> g, arguments |-> Rep(e, MaxLen)]]) :
        g \in {None, Some(Rep(FieldType(k), MaxLen))}}
    \cup {MkExpr(c, [tag |-> "Block", block_expression |->
                        MkBlock(Rep(MkStmt(k, [tag |-> "Expression", expression |-> e]), MaxLen))]),
          MkExpr(c, [tag |-> "Prefix", prefix_expression |->
                        [tag |-> "PrefixExpression", operator |-> "-", rhs |-> e]]),
          MkExpr(c, [tag |-> "Index", index_expression |->
                        [tag |-> "IndexExpression", collection |-> e, index |-> e]]),
          MkExpr(c, [tag |-> "Call", call_expression |->
                        [tag |-> "CallExpression", func |-> e, arguments |-> Rep(e, MaxLen)]]),
          MkExpr(c, [tag |-> "Constructor", constructor_expression |->
                        [tag |-> "ConstructorExpression", type_name |-> MkPath(k),
                         fields |-> Rep([name |-> MkIdent(k), expression |-> e], MaxLen)]]),
          MkExpr(c, [tag |-> "MemberAccess", member_access_expression |->
                        [tag |-> "MemberAccessExpression", lhs |-> e, rhs |-> MkIdent(k)]]),
          MkExpr(c, [tag |-> "Cast", cast_expression |->
                        [tag |-> "CastExpression", lhs |-> e, type |-> FieldType(k)]]),
          MkExpr(c, [tag |-> "Infix", infix_expression |->
                        [tag |-> "InfixExpression", lhs |-> e, operator |-> "==", rhs |-> e]]),
          MkExpr(c, [tag |-> "Tuple", expressions |-> Rep(e, MaxLen)]),
          MkExpr(c, [tag |-> "Lambda", lambda |->
                        [tag |-> "Lambda",
                         parameters |-> Rep([name |-> IdentPattern(k), typ |-> FieldType(k)], MaxLen),
                         return_type |-> FieldType(k), body |-> e]]),
          MkExpr(c, [tag |-> "Comptime", block_expression |->
                        MkBlock(Rep(MkStmt(k, [tag |-> "Semi", expression |-> e]), 1)),
                     span |-> c[1]])}
\* Expressions nested d deep around a variable.
RECURSIVE ExprSpine(_, _)
ExprSpine(d, c) ==
    IF d = 0 THEN {VariableExpr(c)}
    ELSE UNION {ExprWraps(c, e) : e \in ExprSpine(d - 1, Flip(c))}
ExprKids(d, c) ==
    {VariableExpr(c), IntegerExpr(c), ErrorExpr(c)}
    \cup (IF d = 0 THEN {} ELSE ExprSpine(d, c))
Exprs(d, c) ==
    ExprLeaves(c)
    \cup (IF d = 0 THEN {} ELSE UNION {ExprWraps(c, e) : e \in ExprKids(d - 1, Flip(c))})

\* LValue
IdentLValue(c) == [tag |-> "Ident", ident |-> MkIdent(c)]
LValueWraps(c, l) ==
    {[tag |-> "MemberAccess", object |-> l, field_name |-> MkIdent(c), span |-> c[1]],
     [tag |-> "Index", array |-> l, index |-> VariableExpr(c), span |-> c[1]],
     [tag |-> "Dereference", lvalue |-> l, rest |-> "_"]}
LValues(c) ==
    {IdentLValue(c)} \cup LValueWraps(c, IdentLValue(Flip(c)))
    \cup UNION {LValueWraps(c, l) : l \in LValueWraps(Flip(c), IdentLValue(c))}

\* LetStatement, Statement { kind: StatementKind, span }
MkLet(p, t, e) == [tag |-> "LetStatement", pattern |-> p, type |-> t, expression |-> e]
SimpleLet(c) == MkLet(IdentPattern(c), FieldType(c), VariableExpr(c))
StmtLeaves(c) ==
    LET k == Flip(c) IN
    {MkStmt(c, [tag |-> t]) : t \in {"Break", "Continue", "Error"}}
    \cup {MkStmt(c, [tag |-> t, expression |-> VariableExpr(k)]) : t \in {"Expression", "Semi"}}
    \cup {MkStmt(c, [tag |-> "Constrain", constrain_statement |->
            [tag |-> "ConstrainStatement", arg0 |-> VariableExpr(k), arg1 |-> m, rest |-> "Assert"]]) :
        m \in {None, Some(IntegerExpr(k))}}
    \cup {MkStmt(c, [tag |-> "Assign", assign_statement |->
            [tag |-> "AssignStatement", lvalue |-> l, expression |-> VariableExpr(k)]]) :
        l \in LValues(k)}
    \cup {MkStmt(c, [tag |-> "For", for_loop_statement |->
            [tag |-> "ForLoopStatement", identifier |-> MkIdent(k), range |-> r,
             block |-> MkExpr(k, [tag |-> "Block", block_expression |-> MkBlock(Rep(0, 0))]),
             span |-> c[1]]]) :
        r \in {[tag |-> "Range", from |-> IntegerExpr(k), to |-> VariableExpr(k)],
               [tag |-> "Array", expression |-> VariableExpr(k)]}}
    \cup {MkStmt(c, [tag |-> "Let", let_statement |-> SimpleLet(k)])}
Stmts(c) ==
    StmtLeaves(c)
    \cup {MkStmt(c, [tag |-> "Comptime", statement |-> s]) : s \in StmtLeaves(Flip(c))}

\* UnresolvedGenerics, where clauses, FunctionReturnType
Generics(c) ==
    {[tag |-> "Variable", ident |-> MkIdent(c)],
     [tag |-> "Numeric", ident |-> MkIdent(c), typ |-> FieldType(c)]}
GenericLists(c) == {Rep(g, k) : g \in Generics(c), k \in Lens}
WhereClauses(c) ==
    {Rep([tag |-> "UnresolvedTraitConstraint", typ |-> NamedType(c), rest |-> "_"], k) :
        k \in Lens}
ReturnTypes(c) ==
    {[tag |-> "Ty", unresolved_type |-> FieldType(c)], [tag |-> "Default", rest |-> "_"]}

\* NoirFunction { def: FunctionDefinition, .. }
MkParam(c, p) == [tag |-> "Param", pattern |-> p, typ |-> FieldType(Flip(c)), span |-> c[1]]
MkFunction(c, generics, parameters, where_clause, return_type, body) ==
    [tag |-> "NoirFunction", rest |-> "Normal",
     def |-> [tag |-> "FunctionDefinition", name |-> MkIdent(Flip(c)), generics |-> generics,
              parameters |-> parameters, where_clause |-> where_clause,
              return_type |-> return_type, body |-> body, span |-> c[1]]]
SimpleBody(c) == MkBlock(Rep(MkStmt(c, [tag |-> "Expression", expression |-> VariableExpr(Flip(c))]), 1))
SimpleFunction(c) ==
    LET k == Flip(c) IN
    MkFunction(c, Rep([tag |-> "Variable", ident |-> MkIdent(k)], 1),
               Rep(MkParam(k, IdentPattern(c)), MaxLen),
               Rep([tag |-> "UnresolvedTraitConstraint", typ |-> NamedType(k), rest |-> "_"], 1),
               [tag |-> "Ty", unresolved_type |-> FieldType(k)], SimpleBody(k))
Functions(c) ==
    LET k == Flip(c)
        f == SimpleFunction(c)
    IN  {f}
        \cup {[f EXCEPT !.def.generics = g] : g \in GenericLists(k)}
        \cup {[f EXCEPT !.def.parameters = Rep(MkParam(k, p), n)] :
                p \in Patterns(1, c), n \in Lens}
        \cup {[f EXCEPT !.def.where_clause = w] : w \in WhereClauses(k)}
        \cup {[f EXCEPT !.def.return_type = r] : r \in ReturnTypes(k)}
        \cup {[f EXCEPT !.def.body = MkBlock(Rep(s, n))] : s \in Stmts(k), n \in Lens}

\* TraitItem, TraitImplItem
TraitItems(c) ==
    {[tag |-> "Function", name |-> MkIdent(c), generics |-> g,
      parameters |-> Rep([name |-> MkIdent(c), typ |-> FieldType(c)], MaxLen),
      return_type |-> r, where_clause |-> w, body |-> b] :
        g \in {Rep([tag |-> "Variable", ident |-> MkIdent(c)], 1)},
        r \in ReturnTypes(c), w \in WhereClauses(c), b \in {None, Some(SimpleBody(c))}}
    \cup {[tag |-> "Constant", name |-> MkIdent(c), typ |-> FieldType(c), default_value |-> v] :
            v \in {None, Some(IntegerExpr(c)), Some(ErrorExpr(c))}}
    \cup {[tag |-> "Type", name |-> MkIdent(c)]}
TraitImplItems(c) ==
    {[tag |-> "Function", noir_function |-> SimpleFunction(c)],
     [tag |-> "Constant", name |-> MkIdent(c), typ |-> FieldType(c),
      default_value |-> IntegerExpr(c)],
     [tag |-> "Type", name |-> MkIdent(c), alias |-> NamedType(c)]}

\* UseTree { prefix, kind: UseTreeKind }
MkUseTree(c, kind) == [tag |-> "UseTree", prefix |-> MkPath(c), kind |-> kind]
PathUseTrees(c) ==
    {MkUseTree(c, [tag |-> "Path", name |-> MkIdent(c), alias |-> a]) :
        a \in {None, Some(MkIdent(Flip(c)))}}
UseTrees(c) ==
    PathUseTrees(c)
    \cup {MkUseTree(c, [tag |-> "List", use_trees |-> Rep(u, k)]) :
            u \in PathUseTrees(Flip(c)), k \in Lens}
    \cup {MkUseTree(c, [tag |-> "List", use_trees |->
            Rep(MkUseTree(Flip(c), [tag |-> "List", use_trees |-> Rep(u, 1)]), 1)]) :
            u \in PathUseTrees(c)}

\* Item { kind: ItemKind, span }
MkItem(c, kind) == [tag |-> "Item", kind |-> kind, span |-> c[1]]
MkModule(items) == [tag |-> "ParsedModule", items |-> items]
FunctionItems(c) ==
    {MkItem(c, [tag |-> "Function", noir_function |-> f]) : f \in Functions(Flip(c))}
TraitDeclItems(c) ==
    LET k == Flip(c) IN
    {MkItem(c, [tag |-> "Trait", noir_trait |->
        [tag |-> "NoirTrait", name |-> MkIdent(c), generics |-> g, where_clause |-> w,
         items |-> Rep(ti, n), span |-> k[1]]]) :
        g \in {Rep([tag |-> "Numeric", ident |-> MkIdent(k), typ |-> FieldType(k)], 1)},
        w \in WhereClauses(k), ti \in TraitItems(k), n \in Lens}
TraitImplDeclItems(c) ==
    LET k == Flip(c) IN
    {MkItem(c, [tag |-> "TraitImpl", noir_trait_impl |->
        [tag |-> "NoirTraitImpl", trait_name |-> MkPath(k), impl_generics |-> g,
         object_type |-> NamedType(k), where_clause |-> w, items |-> Rep(ti, n)]]) :
        g \in GenericLists(k), w \in {Rep(0, 0)}, ti \in TraitImplItems(k), n \in Lens}
ImplItems(c) ==
    LET k == Flip(c) IN
    {MkItem(c, [tag |-> "Impl", type_impl |->
        [tag |-> "TypeImpl", object_type |-> NamedType(k), type_span |-> k[1],
         generics |-> g, where_clause |-> w,
         methods |-> Rep([noir_function |-> SimpleFunction(k), rest |-> "_"], n)]]) :
        g \in {Rep([tag |-> "Variable", ident |-> MkIdent(k)], 1)},
        w \in WhereClauses(k), n \in Lens}
GlobalItems(c) ==
    LET k == Flip(c) IN
    {MkItem(c, [tag |-> "Global", let_statement |-> MkLet(IdentPattern(k), FieldType(k), e)]) :
        e \in Exprs(MaxDepth, k)}
    \cup {MkItem(c, [tag |-> "Global", let_statement |-> MkLet(p, t, VariableExpr(k))]) :
            p \in Patterns(MaxPatternDepth, k), t \in {FieldType(k)}}
ModuleDeclItems(c) ==
    {MkItem(c, [tag |-> "ModuleDecl", module_declaration |->
        [tag |-> "ModuleDeclaration", ident |-> MkIdent(Flip(c))]])}
ImportItems(c) ==
    {MkItem(c, [tag |-> "Import", use_tree |-> u]) : u \in UseTrees(Flip(c))}
StructItems(c) ==
    LET k == Flip(c) IN
    {MkItem(c, [tag |-> "Struct", noir_struct |->
        [tag |-> "NoirStruct", name |-> MkIdent(c), generics |-> g,
         fields |-> Rep([name |-> MkIdent(c), typ |-> t], n), span |-> k[1]]]) :
        g \in GenericLists(k), t \in {FieldType(k), NamedType(k)}, n \in Lens}
\* NoirTypeAlias { name, generics, typ, span }
TypeAliasItems(c) ==
    LET k == Flip(c) IN
    {MkItem(c, [tag |-> "TypeAlias", noir_type_alias |->
        [tag |-> "NoirTypeAlias", name |-> MkIdent(c), generics |-> g, typ |-> t,
         span |-> k[1]]]) :
        g \in {Rep(0, 0), Rep([tag |-> "Variable", ident |-> MkIdent(k)], 1)},
        t \in Types(MaxDepth, k)}
FlatItems(c) ==
    FunctionItems(c) \cup TraitDeclItems(c) \cup TraitImplDeclItems(c) \cup ImplItems(c)
    \cup GlobalItems(c) \cup ModuleDeclItems(c) \cup ImportItems(c) \cup StructItems(c)
    \cup TypeAliasItems(c)
\* A few items of every kind, for the places where items nest or repeat.
SampleItems(c) ==
    LET k == Flip(c) IN
    {MkItem(c, [tag |-> "Function", noir_function |-> SimpleFunction(k)]),
     MkItem(c, [tag |-> "Global", let_statement |-> SimpleLet(k)]),
     MkItem(c, [tag |-> "ModuleDecl", module_declaration |->
        [tag |-> "ModuleDeclaration", ident |-> MkIdent(k)]]),
     MkItem(c, [tag |-> "Struct", noir_struct |->
        [tag |-> "NoirStruct", name |-> MkIdent(c),
         generics |-> Rep([tag |-> "Variable", ident |-> MkIdent(k)], 1),
         fields |-> Rep([name |-> MkIdent(c), typ |-> NamedType(k)], MaxLen), span |-> k[1]]])}
MkSubmodule(c, items) ==
    MkItem(c, [tag |-> "Submodules", parsed_submodule |->
        [tag |-> "ParsedSubModule", name |-> MkIdent(Flip(c)), contents |-> MkModule(items),
         rest |-> "_"]])
SubmoduleItems(c) ==
    {MkSubmodule(c, Rep(it, n)) : it \in SampleItems(Flip(c)), n \in Lens}
    \cup {MkSubmodule(c, Rep(MkSubmodule(Flip(c), Rep(it, 1)), 1)) : it \in SampleItems(c)}
Items(c) == FlatItems(c) \cup SubmoduleItems(c)

ParsedModules ==
    {MkModule(Rep(0, 0))}
    \cup UNION {{MkModule(Rep(it, 1)) : it \in Items(c)} : c \in Contexts}
    \cup UNION {{MkModule(Rep(it, MaxLen)) : it \in SampleItems(c)} : c \in Contexts}

\* Every tag occurring in the tree.
RECURSIVE TagsIn(_)
TagsIn(n) ==
    UNION { IF f = "tag" THEN {n.tag}
            ELSE IF f \in SpanFields \cup LeafFields THEN {}
            ELSE IF f = "elems" THEN UNION {TagsIn(n.elems[i]) : i \in DOMAIN n.elems}
            ELSE TagsIn(n[f]) : f \in DOMAIN n }

\* The parser's error list: opaque ParserError values, told apart by a number.
ErrorLists == {[i \in 1..k |-> i] : k \in 0..MaxErrors}

\* noirc_frontend::parse_program(source_program): a tree and an error list.  A tree
\* the parser recovered (one with an Error node) comes with errors; the empty
\* module comes with any error list.
ParserOutputs ==
    {o \in [module : ParsedModules, errors : ErrorLists] :
        \/ o.module.items.elems = <<>>
        \/ ("Error" \in TagsIn(o.module)) <=> (o.errors # <<>>)}

\* ------------------------------------------------------------- parse_program

NoTree == [tag |-> "none"]

IdleWalk ==
    /\ walk_tree = NoTree /\ walk_stack = <<>> /\ walk_visits = {}
    /\ walk_steps = 0 /\ walk_revisit = FALSE
IdleOrd == ord_orig = NoTree /\ ord_fn = NoTree /\ ord_pending = {}
\* verify_from_cs has not been called.
NotCalled == [called |-> FALSE]
IdleVerify ==
    /\ verify_pc = "idle" /\ public_abi = <<>> /\ input_file = <<>> /\ file_read = FALSE
    /\ pi_map = <<>> /\ param_index = 0 /\ public_inputs = <<>>
    /\ backend_inputs = NotCalled
IdleMain ==
    /\ pc = "idle" /\ empty_spans = FALSE /\ parsed_program = NoTree /\ errors = <<>>
    /\ parser_out = NoTree /\ entered = FALSE /\ returned = NoTree

Init ==
    /\ pc = "start"
    /\ empty_spans \in BOOLEAN
    /\ parsed_program = NoTree
    /\ errors = <<>>
    /\ parser_out = NoTree
    /\ entered = FALSE
    /\ returned = NoTree
    /\ IdleWalk /\ IdleOrd /\ IdleVerify

\* let (mut parsed_program, errors) = noirc_frontend::parse_program(source_program);
Parse ==
    /\ pc = "start"
    /\ \E o \in ParserOutputs :
        /\ parser_out' = o
        /\ parsed_program' = o.module
        /\ errors' = o.errors
    /\ pc' = "parsed"
    /\ UNCHANGED <<empty_spans, entered, returned, walkVars, ordVars, verifyVars>>

\* Mutant: the error list is not handed on.
EmptySpans_drops_errors ==
    /\ pc = "parsed"
    /\ empty_spans
    /\ LET emptied == Exec(empty_parsed_module(parsed_program), parsed_program) IN
        /\ parsed_program' = emptied
        /\ returned' = [module |-> emptied, errors |-> <<>>]
    /\ entered' = TRUE
    /\ pc' = "done"
    /\ UNCHANGED <<empty_spans, errors, parser_out, walkVars, ordVars, verifyVars>>

\* Mutant: the flag is not tested.
KeepSpans_sanitizes ==
    /\ pc = "parsed"
    /\ ~empty_spans
    /\ LET emptied == Exec(empty_parsed_module(parsed_program), parsed_program) IN
        /\ parsed_program' = emptied
        /\ returned' = [module |-> emptied, errors |-> errors]
    /\ entered' = TRUE
    /\ pc' = "done"
    /\ UNCHANGED <<empty_spans, errors, parser_out, walkVars, ordVars, verifyVars>>

\* if empty_spans { empty_parsed_module(&mut parsed_program); }
\* (parsed_program, errors)
EmptySpans ==
    /\ pc = "parsed"
    /\ empty_spans
    /\ LET emptied == Exec(empty_parsed_module(parsed_program), parsed_program) IN
        /\ parsed_program' = emptied
        /\ returned' = [module |-> emptied, errors |-> errors]
    /\ entered' = TRUE
    /\ pc' = "done"
    /\ UNCHANGED <<empty_spans, errors, parser_out, walkVars, ordVars, verifyVars>>

\* the same with empty_spans false: the if is not taken
KeepSpans ==
    /\ pc = "parsed"
    /\ ~empty_spans
    /\ returned' = [module |-> parsed_program, errors |-> errors]
    /\ pc' = "done"
    /\ UNCHANGED <<empty_spans, parsed_program, errors, parser_out, entered,
                   walkVars, ordVars, verifyVars>>

Next == Parse \/ EmptySpans \/ KeepSpans

Spec == Init /\ [][Next]_vars

\* ------------------------------------- empty_parsed_module, one statement at a time

\* A block in an expression in a statement in a block ..., d levels deep, around an
\* Error expression: the recursion of empty_statement and empty_expression.
RECURSIVE DeepExpr(_, _)
DeepExpr(d, c) ==
    IF d = 0 THEN ErrorExpr(c)
    ELSE MkExpr(c, [tag |-> "Block", block_expression |->
            MkBlock(Vec(<<MkStmt(c, [tag |-> "Error"]),
                      MkStmt(c, [tag |-> "Semi", expression |-> DeepExpr(d - 1, c)])>>))])

\* A tuple in a tuple ..., d levels deep, around an Error type: the recursion of
\* empty_unresolved_type.
RECURSIVE DeepType(_, _)
DeepType(d, c) ==
    IF d = 0 THEN ErrorType(c)
    ELSE MkType(c, [tag |-> "Tuple", unresolved_types |-> Rep(DeepType(d - 1, c), 1)])

\* The trees the stepwise traversal is run on; every span differs from the default.
\* One item of every kind; every form of expression and of type, once at the top
\* and once around an Error node; and the deepest nesting of the generated trees.
WalkTrees ==
    LET c == <<MaxSpan, MaxSpan>>
        global(e) == MkItem(c, [tag |-> "Global", let_statement |->
                        MkLet(IdentPattern(c), FieldType(c), e)])
        alias(t) == MkItem(c, [tag |-> "TypeAlias", noir_type_alias |->
                        [tag |-> "NoirTypeAlias", name |-> MkIdent(c), generics |-> Rep(0, 0),
                         typ |-> t, span |-> c[1]]])
    IN  {MkModule(Rep(0, 0))}
        \cup {MkModule(Rep(it, 1)) :
                it \in (FlatItems(c) \ (GlobalItems(c) \cup TypeAliasItems(c)))
                       \cup SubmoduleItems(c)}
        \cup {MkModule(Rep(global(e), 1)) :
                e \in ExprLeaves(c) \cup ExprWraps(c, ErrorExpr(c))
                      \cup {DeepExpr(MaxDepth + 1, c)}}
        \cup {MkModule(Rep(alias(t), 1)) :
                t \in TypeLeaves(c) \cup TypeWraps(c, ErrorType(c))
                      \cup {DeepType(MaxDepth + 1, c)}}
        \cup {MkModule(Rep(it, MaxLen)) : it \in ModuleDeclItems(c) \cup StructItems(c)}

\* A frame of the call stack: the function, the node it was called on (as a path
\* from the root) and the statements it has still to execute.
Frame(fn, at, ops) == [fn |-> fn, at |-> at, ops |-> ops]

InitWalk ==
    /\ IdleMain /\ IdleOrd /\ IdleVerify
    /\ walk_tree \in WalkTrees
    /\ walk_stack = <<Frame("empty_parsed_module", <<>>, empty_parsed_module(walk_tree))>>
    /\ walk_visits = {<<>>}
    /\ walk_steps = 0
    /\ walk_revisit = FALSE

Top == walk_stack[Len(walk_stack)]
Below == SubSeq(walk_stack, 1, Len(walk_stack) - 1)

\* An assignment statement of the running function: x.span = Default::default()
WalkSet ==
    /\ walk_stack # <<>>
    /\ Top.ops # <<>>
    /\ Head(Top.ops).op = "set"
    /\ walk_tree' = SetAt(walk_tree, Top.at \o Head(Top.ops).at, Head(Top.ops).value)
    /\ walk_stack' = Below \o <<Frame(Top.fn, Top.at, Tail(Top.ops))>>
    /\ walk_steps' = walk_steps + 1
    /\ UNCHANGED <<walk_visits, walk_revisit, mainVars, ordVars, verifyVars>>

\* A call statement of the running function: empty_x(&mut sub_node)
WalkCall ==
    /\ walk_stack # <<>>
    /\ Top.ops # <<>>
    /\ Head(Top.ops).op = "call"
    /\ LET o == Head(Top.ops)
           at == Top.at \o o.at
       IN  /\ walk_stack' = Below \o <<Frame(Top.fn, Top.at, Tail(Top.ops)),
                                        Frame(o.fn, at, o.body)>>
           /\ walk_visits' = walk_visits \cup {at}
           /\ walk_revisit' = (walk_revisit \/ at \in walk_visits)
    /\ walk_steps' = walk_steps + 1
    /\ UNCHANGED <<walk_tree, mainVars, ordVars, verifyVars>>

\* The running function has executed its last statement and returns.
WalkReturn ==
    /\ walk_stack # <<>>
    /\ Top.ops = <<>>
    /\ walk_stack' = Below
    /\ walk_steps' = walk_steps + 1
    /\ UNCHANGED <<walk_tree, walk_visits, walk_revisit, mainVars, ordVars, verifyVars>>

NextWalk == WalkSet \/ WalkCall \/ WalkReturn

\* The traversal is sequential code: a statement that can run does run.
SpecWalk == InitWalk /\ [][NextWalk]_vars /\ WF_vars(NextWalk)

\* --------------------------------------------------------- verify_cmd.rs: verify

\* Parameter names; the input file may name one parameter more than the ABI has.
NameOf == <<"a", "b", "c", "d", "e">>
ParamNames == {NameOf[i] : i \in 1..MaxParams}
FileNames == {NameOf[i] : i \in 1..(MaxParams + 1)}

\* public_abi.parameters: distinct names in any order (the types are read by
\* matches_abi only).
Abis ==
    UNION {{a \in [1..k -> ParamNames] : \A i, j \in 1..k : i # j => a[i] # a[j]} :
           k \in 0..MaxParams}

\* InputValue::Field(elem), InputValue::Vec(vec_elem)
InputValues ==
    {[tag |-> "Field", elem |-> 1],
     [tag |-> "Vec", vec_elem |-> <<>>],
     [tag |-> "Vec", vec_elem |-> [i \in 1..MaxVec |-> i + 1]]}

\* BTreeMap<String, InputValue>: what the verifier input file can hold.
InputMaps == UNION {[names -> InputValues] : names \in SUBSET FileNames}

\* BTreeMap::new()
EmptyMap == [n \in {} |-> 0]

\* pi_map.len()
MapLen(m) == Cardinality(DOMAIN m)

InitVerify ==
    /\ IdleMain /\ IdleWalk /\ IdleOrd
    /\ verify_pc = "start"
    /\ public_abi \in Abis
    /\ input_file \in InputMaps
    /\ file_read = FALSE
    /\ pi_map = EmptyMap
    /\ param_index = 0
    /\ public_inputs = <<>>
    /\ backend_inputs = NotCalled

\* if num_params != 0 { public_inputs = Format::Toml.parse(curr_dir, VERIFIER_INPUT_FILE) }
\* The parser is not part of this file: it returns the map or does not return.
ReadInputFile ==
    /\ verify_pc = "start"
    /\ Len(public_abi) # 0
    /\ file_read' = TRUE
    /\ \E parsed \in BOOLEAN :
        IF parsed THEN pi_map' = input_file /\ verify_pc' = "check"
        ELSE pi_map' = pi_map /\ verify_pc' = "parse failed"
    /\ UNCHANGED <<public_abi, input_file, param_index, public_inputs, backend_inputs,
                   mainVars, walkVars, ordVars>>

\* num_params == 0: the file is not read
SkipInputFile ==
    /\ verify_pc = "start"
    /\ Len(public_abi) = 0
    /\ verify_pc' = "check"
    /\ UNCHANGED <<public_abi, input_file, file_read, pi_map, param_index, public_inputs,
                   backend_inputs, mainVars, walkVars, ordVars>>

\* if num_params != public_inputs.len() { panic!(...) }
CheckCount ==
    /\ verify_pc = "check"
    /\ verify_pc' = IF Len(public_abi) # MapLen(pi_map) THEN "count panic" ELSE "process"
    /\ UNCHANGED <<public_abi, input_file, file_read, pi_map, param_index, public_inputs,
                   backend_inputs, mainVars, walkVars, ordVars>>

\* Mutant: the value is inserted at the front of the vector.
PushValue_front(inputs, value) ==
    IF value.tag = "Field" THEN <<value.elem>> \o inputs ELSE value.vec_elem \o inputs

\* match value { Field(elem) => public_inputs.push(elem),
\*               Vec(vec_elem) => public_inputs.extend(vec_elem) }
PushValue(inputs, value) ==
    IF value.tag = "Field" THEN Append(inputs, value.elem) ELSE inputs \o value.vec_elem

\* One iteration of the loop of process_abi_with_verifier_input.  matches_abi and
\* write_stderr are not part of this file: the value matches or not, and
\* write_stderr returns or ends the process.
ProcessParam ==
    /\ verify_pc = "process"
    /\ param_index < Len(public_abi)
    /\ LET param_name == public_abi[param_index + 1] IN
       IF param_name \notin DOMAIN pi_map
       THEN /\ verify_pc' = "missing panic"
            /\ UNCHANGED <<param_index, public_inputs>>
       ELSE \E matches \in BOOLEAN, returns \in BOOLEAN :
            IF ~matches /\ ~returns
            THEN /\ verify_pc' = "exited"
                 /\ UNCHANGED <<param_index, public_inputs>>
            ELSE /\ public_inputs' = PushValue(public_inputs, pi_map[param_name])
                 /\ param_index' = param_index + 1
                 /\ verify_pc' = verify_pc
    /\ UNCHANGED <<public_abi, input_file, file_read, pi_map, backend_inputs,
                   mainVars, walkVars, ordVars>>

\* process_abi_with_verifier_input returns public_inputs
ProcessReturn ==
    /\ verify_pc = "process"
    /\ param_index = Len(public_abi)
    /\ verify_pc' = "read proof"
    /\ UNCHANGED <<public_abi, input_file, file_read, pi_map, param_index, public_inputs,
                   backend_inputs, mainVars, walkVars, ordVars>>

\* std::fs::read(proof_path).unwrap(); hex::decode(proof_hex).unwrap()
ReadProof ==
    /\ verify_pc = "read proof"
    /\ \E ok \in BOOLEAN : verify_pc' = IF ok THEN "call backend" ELSE "proof panic"
    /\ UNCHANGED <<public_abi, input_file, file_read, pi_map, param_index, public_inputs,
                   backend_inputs, mainVars, walkVars, ordVars>>

\* backend_ptr.backend().verify_from_cs(&proof, public_inputs, compiled_program.circuit)
CallBackend ==
    /\ verify_pc = "call backend"
    /\ backend_inputs' = [called |-> TRUE, public_inputs |-> public_inputs]
    /\ verify_pc' = "done"
    /\ UNCHANGED <<public_abi, input_file, file_read, pi_map, param_index, public_inputs,
                   mainVars, walkVars, ordVars>>

NextVerify ==
    \/ ReadInputFile \/ SkipInputFile \/ CheckCount \/ ProcessParam \/ ProcessReturn
    \/ ReadProof \/ CallBackend

SpecVerify == InitVerify /\ [][NextVerify]_vars

\* ------------------------ the statements of one function, in every possible order

\* The statements the normalizer of node n executes on it.
OrdPlan(n) ==
    CASE n.tag = "NoirFunction" -> empty_noir_function(n)
      [] n.tag = "NoirStruct" -> empty_noir_struct(n)

\* The nodes whose statements are permuted.
OrdNodes ==
    UNION {{[SimpleFunction(c) EXCEPT !.def.parameters = Rep(MkParam(c, IdentPattern(c)), 1)],
            [SimpleFunction(c) EXCEPT !.def.parameters = Rep(0, 0)],
            [tag |-> "NoirStruct", name |-> MkIdent(c),
             generics |-> Rep([tag |-> "Variable", ident |-> MkIdent(Flip(c))], 1),
             fields |-> Rep([name |-> MkIdent(c), typ |-> NamedType(Flip(c))], MaxLen),
             span |-> c[1]]} :
           c \in {<<MaxSpan, MaxSpan>>, <<Default, MaxSpan>>, <<MaxSpan, Default>>}}

InitOrd ==
    /\ IdleMain /\ IdleWalk /\ IdleVerify
    /\ ord_orig \in OrdNodes
    /\ ord_fn = ord_orig
    /\ ord_pending = 1..Len(OrdPlan(ord_orig))

\* Statement i of the normalizer runs on the node as it is now.
OrdVisit(i) ==
    /\ i \in ord_pending
    /\ ord_fn' = Exec(<<OrdPlan(ord_fn)[i]>>, ord_fn)
    /\ ord_pending' = ord_pending \ {i}
    /\ UNCHANGED <<ord_orig, mainVars, walkVars, verifyVars>>

NextOrd == \E i \in 1..Len(OrdPlan(ord_orig)) : OrdVisit(i)

SpecOrd == InitOrd /\ [][NextOrd]_vars

\* The statements of the normalizer run on n one after the other in the given order.
RECURSIVE OrdRun(_, _)
OrdRun(n, order) ==
    IF Len(order) = 0 THEN n
    ELSE OrdRun(Exec(<<OrdPlan(n)[Head(order)]>>, n), Tail(order))

\* ------------------------------------------------------------------ claims

Sanitized == pc = "done" /\ empty_spans
Kept == pc = "done" /\ ~empty_spans

\* The items of a module of the given kinds, as indices.
ItemsOfKind(m, kinds) == {i \in Idx(m.items) : m.items.elems[i].kind.tag \in kinds}

\* C1: after parse_program(source, true) every location attribute anywhere in the
\* returned tree, auxiliary spans of variants included, is the default span.
C1_AllSpansEmptied == Sanitized => SpansIn(returned.module) \subseteq {Default}

\* C2: sanitization changes location attributes only: tags, children, their number
\* and order, identifier text, literal values and operators are as parsed.
C2_ShapePreserved == Sanitized => Shape(returned.module) = Shape(parser_out.module)
C2_Witness ==
    /\ Sanitized
    /\ returned.module # parser_out.module
    /\ "Ident" \in TagsIn(returned.module)

\* C3: with empty_spans false the returned tree is the parser's tree, untouched, and
\* empty_parsed_module is entered only when the flag is true.
C3_FlagFalseUntouched ==
    /\ Kept => returned.module = parser_out.module
    /\ entered => empty_spans
C3_Witness == Kept /\ SpansIn(returned.module) # {Default} /\ returned.module.items.elems # <<>>

\* C4: the returned error list is the parser's list, same entries in the same order,
\* for both flags; with the flag true the tree is sanitized also when the list is
\* non-empty.
C4_ErrorsPassedThrough ==
    /\ pc \in {"parsed", "done"} => errors = parser_out.errors
    /\ pc = "done" => returned.errors = parser_out.errors
    /\ Sanitized =>
            /\ entered
            /\ returned.module = Exec(empty_parsed_module(parser_out.module), parser_out.module)
C4_Witness ==
    /\ Sanitized
    /\ Len(returned.errors) >= 2
    /\ returned.module # parser_out.module

\* C5: sanitizing the sanitized tree again yields the same tree.
C5_Idempotent ==
    Sanitized => Exec(empty_parsed_module(returned.module), returned.module) = returned.module
C5_Witness == Sanitized /\ returned.module # parser_out.module

\* The traversal has returned to its caller.
WalkDone == walk_stack = <<>>

\* What C6 asks of every state of the traversal: no failure (a statement can run
\* until the traversal has returned), no node called on twice, a call stack no
\* deeper than the tree, every frame working strictly inside the node of the frame
\* below it, and, once it has returned, calls made on nodes of the tree only and a
\* number of steps bounded by the size of the tree (steps and calls only grow, so
\* their bound at the end is their bound throughout).
WalkSafe ==
    /\ WalkDone \/ ENABLED NextWalk
    /\ ~walk_revisit
    /\ WalkDone =>
            LET nodes == NodePaths(walk_tree) IN
            /\ walk_visits \subseteq nodes
            /\ walk_steps <= 3 * Cardinality(nodes)
    /\ Len(walk_stack) <= NestingDepth(walk_tree)
    /\ \A k \in 2..Len(walk_stack) :
        /\ Len(walk_stack[k].at) > Len(walk_stack[k - 1].at)
        /\ SubSeq(walk_stack[k].at, 1, Len(walk_stack[k - 1].at)) = walk_stack[k - 1].at

\* C6: sanitization is total and terminates: on every finite tree, trees with Error
\* statements, expressions and types included, the traversal finishes without
\* failing, each node is visited a bounded number of times (once), and the recursion
\* depth never exceeds the nesting depth of the tree.
C6_TotalAndTerminates == []WalkSafe /\ <>WalkDone
\* A traversal of a tree with an Error node has finished, and left every span empty
\* that the one-shot run leaves empty.
C6_Witness ==
    /\ WalkDone
    /\ "Error" \in TagsIn(walk_tree)
    /\ walk_steps > NestingDepth(walk_tree)
    /\ Exec(empty_parsed_module(walk_tree), walk_tree) = walk_tree

\* C7: the result does not depend on the order in which the sibling fields of a node
\* are visited: the statements of a node's normalizer, run in any order, leave the
\* tree that running them in source order leaves.
C7_OrderIndependent ==
    ord_pending = {} =>
        /\ ord_fn = OrdRun(ord_orig, [i \in 1..Len(OrdPlan(ord_orig)) |-> i])
        /\ ord_fn = Exec(OrdPlan(ord_orig), ord_orig)
\* All statements of a function's normalizer have run, and changed the function.
C7_Witness ==
    /\ ord_orig # NoTree
    /\ ord_pending = {}
    /\ ord_orig.tag = "NoirFunction"
    /\ ord_fn # ord_orig

\* C8: after sanitizing a Struct or TypeAlias item, the item's location, its name,
\* every field's identifier and type, the aliased type and every generic parameter
\* of the item have empty locations, for type aliases as for structs.
C8_StructAliasEmptied ==
    Sanitized =>
        \A i \in ItemsOfKind(returned.module, {"Struct", "TypeAlias"}) :
            LET item == returned.module.items.elems[i] IN
            /\ item.span = Default
            /\ IF item.kind.tag = "Struct"
               THEN LET s == item.kind.noir_struct IN
                    /\ s.span = Default
                    /\ SpansIn(s.name) \cup SpansIn(s.generics) \subseteq {Default}
                    /\ \A j \in Idx(s.fields) :
                        /\ SpansIn(s.fields.elems[j].name) \subseteq {Default}
                        /\ s.fields.elems[j].typ.span = Default
               ELSE LET a == item.kind.noir_type_alias IN
                    /\ a.span = Default
                    /\ SpansIn(a.name) \cup SpansIn(a.generics) \subseteq {Default}
                    /\ a.typ.span = Default

\* What C9 asks of one member of a trait, a trait impl or an impl.
TraitMemberEmptied(m) ==
    /\ m.name.span = Default
    /\ m.tag = "Function" =>
            /\ SpansIn(m.generics) \subseteq {Default}
            /\ \A j \in Idx(m.parameters) :
                    /\ m.parameters.elems[j].name.span = Default
                    /\ m.parameters.elems[j].typ.span = Default
            /\ m.return_type.tag = "Ty" => m.return_type.unresolved_type.span = Default
            /\ \A j \in Idx(m.where_clause) : m.where_clause.elems[j].typ.span = Default
            /\ \A b \in Idx(m.body) : \A j \in Idx(m.body.elems[b].statements) :
                    m.body.elems[b].statements.elems[j].span = Default
    /\ m.tag = "Constant" =>
            /\ m.typ.span = Default
            /\ \A j \in Idx(m.default_value) : m.default_value.elems[j].span = Default
TraitImplMemberEmptied(m, before) ==
    /\ m.tag = "Function" =>
            m.noir_function = Exec(empty_noir_function(before.noir_function), before.noir_function)
    /\ m.tag = "Constant" =>
            m.name.span = Default /\ m.typ.span = Default /\ m.default_value.span = Default
    /\ m.tag = "Type" => m.name.span = Default /\ m.alias.span = Default

\* C9: after sanitizing a Trait, TraitImpl or Impl item every member of its member
\* list is normalized: a function member like a top-level function, an associated
\* constant in its name, type and (when present) default value, an associated type
\* in its name (and alias type in a trait impl); the list keeps its length, and an
\* empty list or an absent default value or body is no error.
C9_MembersNormalized ==
    Sanitized =>
        \A i \in ItemsOfKind(parser_out.module, {"Trait", "TraitImpl", "Impl"}) :
            LET before == parser_out.module.items.elems[i].kind
                after == returned.module.items.elems[i].kind
            IN
            CASE before.tag = "Trait" ->
                    /\ Len(after.noir_trait.items.elems) = Len(before.noir_trait.items.elems)
                    /\ \A j \in Idx(after.noir_trait.items) :
                            TraitMemberEmptied(after.noir_trait.items.elems[j])
              [] before.tag = "TraitImpl" ->
                    /\ Len(after.noir_trait_impl.items.elems)
                            = Len(before.noir_trait_impl.items.elems)
                    /\ \A j \in Idx(after.noir_trait_impl.items) :
                            TraitImplMemberEmptied(after.noir_trait_impl.items.elems[j],
                                                   before.noir_trait_impl.items.elems[j])
              [] before.tag = "Impl" ->
                    /\ Len(after.type_impl.methods.elems) = Len(before.type_impl.methods.elems)
                    /\ \A j \in Idx(after.type_impl.methods) :
                            LET f == before.type_impl.methods.elems[j].noir_function IN
                            after.type_impl.methods.elems[j].noir_function
                                = Exec(empty_noir_function(f), f)
\* A trait whose associated constant has a default value with a location, sanitized.
C9_Witness ==
    /\ Sanitized
    /\ \E i \in ItemsOfKind(parser_out.module, {"Trait"}) :
        \E j \in Idx(parser_out.module.items.elems[i].kind.noir_trait.items) :
            LET m == parser_out.module.items.elems[i].kind.noir_trait.items.elems[j] IN
            /\ m.tag = "Constant"
            /\ m.default_value.elems # <<>>
            /\ m.default_value.elems[1].span # Default

\* The patterns of the global let bindings and of the function parameters of a module.
TopPatterns(m) ==
    {m.items.elems[i].kind.let_statement.pattern : i \in ItemsOfKind(m, {"Global"})}
    \cup UNION {
        {m.items.elems[i].kind.noir_function.def.parameters.elems[j].pattern :
            j \in Idx(m.items.elems[i].kind.noir_function.def.parameters)} :
        i \in ItemsOfKind(m, {"Function"})}

\* C10: after sanitizing a pattern of any form and depth every location inside it
\* is empty, the auxiliary positional data of the Mutable and Struct forms included.
C10_PatternEmptied ==
    Sanitized => \A p \in TopPatterns(returned.module) : SpansIn(p) \subseteq {Default}

\* The sub-nodes the statements call an empty_* function on, as paths from base.
RECURSIVE CallPaths(_, _)
CallPaths(ops, base) ==
    UNION {IF ops[i].op = "call"
           THEN {base \o ops[i].at} \cup CallPaths(ops[i].body, base \o ops[i].at)
           ELSE {} : i \in DOMAIN ops}

\* The payloads of the terminal forms of tree n, as paths: the kind of a Quote,
\* Resolved or Error expression, the kind of a Break, Continue or Error statement,
\* a scalar literal, the data of a terminal type.
TerminalPaths(n) ==
    {p \in NodePaths(n) :
        /\ Len(p) > 0
        /\ LET parent == At(n, SubSeq(p, 1, Len(p) - 1))
               step == p[Len(p)]
               node == At(n, p)
           IN  /\ step.i = 0
               /\ "tag" \in DOMAIN node
               /\ "tag" \in DOMAIN parent
               /\ \/ /\ parent.tag = "Expression" /\ step.f = "kind"
                     /\ node.tag \in {"Quote", "Resolved", "Error"}
                  \/ /\ parent.tag = "Statement" /\ step.f = "kind"
                     /\ node.tag \in {"Break", "Continue", "Error"}
                  \/ /\ parent.tag = "Literal" /\ step.f = "literal"
                     /\ node.tag \in ScalarLiteralTags
                  \/ /\ parent.tag = "UnresolvedType" /\ step.f = "typ"
                     /\ node.tag \in TerminalTypeTags}

IsPrefix(p, q) == Len(p) <= Len(q) /\ SubSeq(q, 1, Len(p)) = p

\* C11: terminal forms are not recursed into and their content is left unchanged:
\* no empty_* function is called on or inside the payload of a Quote, Resolved or
\* Error expression, of a Break, Continue or Error statement, of a scalar literal or
\* of a terminal type, and the payload returned is the payload parsed.
C11_TerminalsUnchanged ==
    Sanitized =>
        LET calls == CallPaths(empty_parsed_module(parser_out.module), <<>>) IN
        \A p \in TerminalPaths(parser_out.module) :
            /\ At(returned.module, p) = At(parser_out.module, p)
            /\ \A q \in calls :
                \/ ~IsPrefix(p, q)
                \* empty_literal is called on the literal itself and matches it
                \/ q = p /\ At(parser_out.module, SubSeq(p, 1, Len(p) - 1)).tag = "Literal"
\* A Quote expression and a scalar literal whose expressions had a span, sanitized.
C11_Witness ==
    /\ Sanitized
    /\ \E p \in TerminalPaths(parser_out.module) :
        /\ At(parser_out.module, p).tag \in {"Quote", "Integer", "Error"}
        /\ SpansIn(parser_out.module) # {Default}
        /\ returned.module # parser_out.module

\* The submodules of tree n at every nesting depth, as paths.
SubmodulePaths(n) ==
    {p \in NodePaths(n) :
        LET node == At(n, p) IN "tag" \in DOMAIN node /\ node.tag = "ParsedSubModule"}

\* C12: sanitization reaches every item at every submodule nesting depth: the name
\* of a submodule is cleared and every item of its module, and of the modules nested
\* in it, is what empty_item makes of that item at the top level.
C12_SubmodulesReached ==
    Sanitized =>
        \A p \in SubmodulePaths(parser_out.module) :
            LET before == At(parser_out.module, p)
                after == At(returned.module, p)
            IN  /\ after.name.span = Default
                /\ Len(after.contents.items.elems) = Len(before.contents.items.elems)
                /\ \A i \in Idx(before.contents.items) :
                        LET item == before.contents.items.elems[i] IN
                        after.contents.items.elems[i] = Exec(empty_item(item), item)
\* A submodule inside a submodule, holding an item with a span, sanitized.
C12_Witness ==
    /\ Sanitized
    /\ \E p \in SubmodulePaths(parser_out.module) :
        /\ \E q \in SubmodulePaths(parser_out.module) : q # p /\ IsPrefix(q, p)
        /\ At(parser_out.module, p).contents.items.elems # <<>>
        /\ At(parser_out.module, p).contents.items.elems[1].span # Default
        /\ At(parser_out.module, p).name.span # Default

\* The elements an input value stands for: one for a Field, all of a Vec, in order.
ValueElems(value) == IF value.tag = "Field" THEN <<value.elem>> ELSE value.vec_elem

\* The values of the map listed in the order of the ABI's parameters.
RECURSIVE InAbiOrder(_, _)
InAbiOrder(abi, map) ==
    IF Len(abi) = 0 THEN <<>>
    ELSE ValueElems(map[Head(abi)]) \o InAbiOrder(Tail(abi), map)

\* C13: in verify the backend is called only after the number of parsed verifier
\* inputs was found equal to the number of public ABI parameters (verify panics
\* otherwise), the input file is not read when that number is zero, the vector
\* the backend receives lists the values in ABI parameter order (a Field one
\* element, a Vec all its elements in order), and a parameter missing from the
\* input map aborts before the backend is called.
C13_VerifierInputs ==
    /\ verify_pc \in {"process", "missing panic", "exited", "read proof", "proof panic",
                      "call backend", "done"}
            => Len(public_abi) = MapLen(pi_map)
    /\ verify_pc = "count panic" => Len(public_abi) # MapLen(pi_map)
    /\ Len(public_abi) = 0 => ~file_read
    /\ verify_pc = "missing panic" => ~backend_inputs.called
    /\ backend_inputs.called =>
            /\ Len(public_abi) = MapLen(pi_map)
            /\ \A i \in 1..Len(public_abi) : public_abi[i] \in DOMAIN pi_map
            /\ backend_inputs.public_inputs = InAbiOrder(public_abi, pi_map)
\* The backend was called for an ABI whose parameters are not in the order of their
\* names, with a Vec value before a Field value.
C13_Witness ==
    /\ backend_inputs.called
    /\ Len(public_abi) >= 2
    /\ public_abi[1] = NameOf[2]
    /\ pi_map[public_abi[1]].tag = "Vec"
    /\ pi_map[public_abi[1]].vec_elem # <<>>
    /\ pi_map[public_abi[2]].tag = "Field"

====
